---- MODULE Spec2Model ----
(***************************************************************************)
(* Model of the realtime conversation component (ConversationView.tsx):   *)
(* session lifecycle, playback scheduling, transcript accumulation, and   *)
(* of the journey of App that leads to a conversation.                    *)
(*                                                                         *)
(* One record per ConversationView instance holds the React state, the    *)
(* refs and the browser objects the instance created (microphone tracks,  *)
(* audio contexts, the websocket session, buffer source nodes).  Each     *)
(* action is one task of the browser's event loop: an event handler or    *)
(* the continuation of an await, run to completion.                       *)
(***************************************************************************)
EXTENDS Integers, Sequences, FiniteSets, TLC

VARIABLES cv, app, last

vars == <<cv, app, last>>

\* ------------------------------------------------------------------ bounds
MaxInst == 2
MaxJourneys == 2
MaxMsgs == 2
MaxClock == 1
MaxFrames == 3
MaxBlocks == 3

Inst == 1..MaxInst
\* Durations of decoded buffers, in ticks of the output clock.
Durations == {1, 2}

\* ------------------------------------------------------------------ text
\* Text is a sequence of characters; " " stands for any white space.
Fragments == {<<"a">>, <<" ">>}

RECURSIVE TrimStart(_)
TrimStart(s) ==
    IF s # <<>> /\ Head(s) = " " THEN TrimStart(Tail(s)) ELSE s

RECURSIVE TrimEnd(_)
TrimEnd(s) ==
    IF s # <<>> /\ s[Len(s)] = " " THEN TrimEnd(SubSeq(s, 1, Len(s) - 1)) ELSE s

\* String.prototype.trim
Trim(s) == TrimEnd(TrimStart(s))

\* ------------------------------------------------------------------ messages
\* A LiveServerMessage.  audio: "none", "bad" (a payload that does not decode)
\* or "ok" with the duration of the decoded buffer; an absent transcription
\* is the empty text (appending it changes nothing).
NoMsg ==
    [audio |-> "none", duration |-> 0, interrupted |-> FALSE,
     inputTranscription |-> <<>>, outputTranscription |-> <<>>,
     turnComplete |-> FALSE]

Payloads ==
    { [audio |-> "none", duration |-> 0], [audio |-> "bad", duration |-> 0] }
    \cup { [audio |-> "ok", duration |-> d] : d \in Durations }

\* Messages of the audio stream: an optional chunk, an optional interruption.
AudioMsgs ==
    { [NoMsg EXCEPT !.audio = a.audio, !.duration = a.duration, !.interrupted = x] :
        a \in Payloads, x \in BOOLEAN } \ {NoMsg}

\* Messages of the transcription stream: an optional chunk that decodes, at
\* most one fragment (of the user's or of the model's speech), an optional
\* end of turn.
TextMsgs ==
    { [NoMsg EXCEPT !.audio = a.audio, !.duration = a.duration,
                    !.inputTranscription = f[1], !.outputTranscription = f[2],
                    !.turnComplete = tc] :
        a \in { p \in Payloads : p.audio # "bad" /\ p.duration <= 1 },
        f \in {<<<<>>, <<>>>>} \cup { <<t, <<>>>> : t \in Fragments }
                              \cup { <<<<>>, t>> : t \in Fragments },
        tc \in BOOLEAN } \ {NoMsg}

\* ------------------------------------------------------------------ state
\* The source scheduled last since the last interruption (valid: there is one).
NoSource == [valid |-> FALSE, start |-> 0, duration |-> 0]


\* const [status, ...] = useState(...) and the useRef(...) declarations,
\* followed by the browser objects owned by the instance.
NewView(mouth) ==
    [ phase |-> "mounted",
      mouthCoordinates |-> mouth,
      voiceName |-> "Zephyr",
      status |-> "idle",
      transcript |-> <<>>,
      activeAudioSources |-> 0,
      sessionPromiseRef |-> FALSE,
      inputAudioContextRef |-> "null",
      outputAudioContextRef |-> "null",
      audioStreamRef |-> FALSE,
      scriptProcessorRef |-> FALSE,
      mediaStreamSourceRef |-> FALSE,
      nextStartTimeRef |-> 0,
      audioSourcesRef |-> {},
      analyserNodeRef |-> FALSE,
      animationFrameIdRef |-> FALSE,
      currentInputTranscriptionRef |-> <<>>,
      currentOutputTranscriptionRef |-> <<>>,
      \* browser side
      startPc |-> "none",
      micTracks |-> "none",
      session |-> "none",
      sessionPromise |-> "none",
      closeDeferred |-> FALSE,
      closeCalls |-> 0,
      oncloseDue |-> FALSE,
      capturing |-> FALSE,
      currentTime |-> 0,
      decoding |-> {},
      nodes |-> {},
      portrait |-> "static",
      \* history
      msgCount |-> 0,
      prevSource |-> NoSource,
      arrivedInput |-> <<>>,
      arrivedOutput |-> <<>>,
      expected |-> <<>>,
      trail |-> <<"idle">>,
      micDenied |-> FALSE,
      stopRequested |-> FALSE,
      mediaFile |-> FALSE,
      gender |-> "none",
      \* animation: the height of the mouth region on the canvas (pixels),
      \* smoothedVolumeRef and the mouthOpenness of the last frame (scaled)
      dHeight |-> 0,
      smoothedVolumeRef |-> 0,
      mouthOpenness |-> 0,
      frames |-> 0,
      \* capture: the number of blocks captured, and the blocks the remote
      \* session was sent, in the order of sending
      captured |-> 0,
      sent |-> <<>>,
      \* history: the latest message whose interruption was processed
      interruptedUpTo |-> 0,
      \* history: the journey that mounted the instance, and the journey
      \* whose response the region in the mouthCoordinates prop was parsed
      \* from (0: the prop is null)
      journey |-> 1,
      mouthJourney |-> IF mouth THEN 1 ELSE 0 ]

Unborn == [NewView(FALSE) EXCEPT !.phase = "unborn", !.portrait = "none"]

\* The state of App (useState) and the position of handleStartJourney.
\* mouthCoordinates: 0 is null, k > 0 the region parsed from the response of
\* journey k.  photoUrl, personalityPrompt, error: whether the value is
\* truthy.  pc: the await at which handleStartJourney is suspended.
NewApp ==
    [ appState |-> "upload",
      photoUrl |-> FALSE,
      personalityPrompt |-> FALSE,
      voiceName |-> "Zephyr",
      mouthCoordinates |-> 0,
      error |-> FALSE,
      pc |-> "idle",
      mediaFile |-> FALSE,
      journey |-> 0 ]

\* App while it shows the conversation of the first journey.
InConversation(mouth) ==
    [NewApp EXCEPT !.appState = "conversation", !.photoUrl = TRUE,
                   !.personalityPrompt = TRUE,
                   !.mouthCoordinates = IF mouth THEN 1 ELSE 0,
                   !.journey = 1]

\* The task executed last, kept for the handlers the properties speak about
\* (any other task is "Other"): its handler and instance, its message; for an
\* end or an error the status and the session state it found; for a scheduled
\* source the start time passed to source.start, the clock at that moment and
\* at the arrival of the chunk, and the source scheduled before it.
NoEvent ==
    [op |-> "Init", inst |-> 0, status |-> "idle", session |-> "none",
     msg |-> NoMsg, start |-> 0, now |-> 0, arrival |-> 0, prev |-> NoSource,
     resp |-> "none", rms |-> 0]

Observed ==
    {"OnMessageDone", "OnMessageAwait", "OnMessageThrow", "MicDenied",
     "EndConversation", "EndConversationAgain", "OnError", "OnOpen",
     "MouthRejected", "MouthDone", "EnterConversation", "AnimFrameRms"}

Event(op, i) ==
    CASE op \in {"EndConversation", "OnError"} ->
            [NoEvent EXCEPT !.op = op, !.inst = i,
                            !.status = cv[i].status, !.session = cv[i].session]
      [] op \in Observed -> [NoEvent EXCEPT !.op = op, !.inst = i]
      [] OTHER -> [NoEvent EXCEPT !.op = "Other"]

Init ==
    /\ \E mouth \in BOOLEAN :
          /\ cv = [i \in Inst |-> IF i = 1 THEN NewView(mouth) ELSE Unborn]
          /\ app = InConversation(mouth)
    /\ last = NoEvent

\* setStatus that also updates a component that was unmounted.
SetStatus_Unmounted(c, s) ==
    [c EXCEPT !.status = s, !.trail = IF s = c.status THEN @ ELSE Append(@, s)]

\* setStatus(s): a state update of an unmounted component is dropped.
SetStatus(c, s) ==
    IF c.phase = "mounted"
    THEN [c EXCEPT !.status = s, !.trail = IF s = c.status THEN @ ELSE Append(@, s)]
    ELSE c

\* ------------------------------------------------------------------ helpers
Max(a, b) == IF a >= b THEN a ELSE b

\* setActiveAudioSources(v): dropped once the component is unmounted.
SetActiveAudioSources(c, v) ==
    IF c.phase = "mounted" THEN [c EXCEPT !.activeAudioSources = v] ELSE c

\* session.close(): closes the websocket; its close event is delivered later.
CloseSession(c) ==
    IF c.session = "open"
    THEN [c EXCEPT !.session = "closed", !.oncloseDue = TRUE]
    ELSE c

\* sessionPromiseRef.current.then(session => session.close()): runs at once
\* (as a microtask) when the promise is resolved, else when it resolves.
ThenClose(c) ==
    LET c1 == [c EXCEPT !.closeCalls = @ + 1]
    IN  IF c1.sessionPromise = "resolved" THEN CloseSession(c1)
        ELSE [c1 EXCEPT !.closeDeferred = TRUE]

\* source.stop() for every source of audioSourcesRef.
StopSources(c) ==
    [c EXCEPT !.nodes =
        { IF n.id \in c.audioSourcesRef THEN [n EXCEPT !.stopped = TRUE] ELSE n
          : n \in c.nodes }]

\* stopAudioProcessing without the stop of the microphone tracks.
stopAudioProcessing_KeepsTracks(c) ==
    LET c1 == IF c.scriptProcessorRef /\ c.mediaStreamSourceRef
              THEN [c EXCEPT !.scriptProcessorRef = FALSE,
                             !.mediaStreamSourceRef = FALSE,
                             !.capturing = FALSE]
              ELSE c
        c2 == IF c1.audioStreamRef THEN [c1 EXCEPT !.audioStreamRef = FALSE] ELSE c1
        c3 == IF c2.inputAudioContextRef = "running"
              THEN [c2 EXCEPT !.inputAudioContextRef = "closed"]
              ELSE c2
    IN  IF c3.outputAudioContextRef = "running"
        THEN [c3 EXCEPT !.outputAudioContextRef = "closed"]
        ELSE c3

stopAudioProcessing(c) ==
    LET c1 == IF c.scriptProcessorRef /\ c.mediaStreamSourceRef
              THEN [c EXCEPT !.scriptProcessorRef = FALSE,
                             !.mediaStreamSourceRef = FALSE,
                             !.capturing = FALSE]
              ELSE c
        c2 == IF c1.audioStreamRef
              THEN [c1 EXCEPT !.micTracks = "stopped", !.audioStreamRef = FALSE]
              ELSE c1
        c3 == IF c2.inputAudioContextRef = "running"
              THEN [c2 EXCEPT !.inputAudioContextRef = "closed"]
              ELSE c2
    IN  IF c3.outputAudioContextRef = "running"
        THEN [c3 EXCEPT !.outputAudioContextRef = "closed"]
        ELSE c3

\* canvasRef.current and imageRef.current are set while the canvas is rendered.
CanvasReady(c) == c.phase = "mounted"

stopAnimation(c) ==
    LET c1 == [c EXCEPT !.animationFrameIdRef = FALSE]
    IN  IF CanvasReady(c1) THEN [c1 EXCEPT !.portrait = "static"] ELSE c1

\* One frame of animateMouth; open: mouthOpenness > 1 in this frame.
animateMouth(c, open) ==
    IF ~(c.analyserNodeRef /\ CanvasReady(c) /\ c.mouthCoordinates)
    THEN [c EXCEPT !.animationFrameIdRef = TRUE]
    ELSE [c EXCEPT !.portrait = IF open THEN "jaw" ELSE "static",
                   !.animationFrameIdRef = TRUE]

\* ------------------------------------------------------------------ start
\* {status === 'idle' && <button onClick={startConversation}>}: the only
\* element that calls startConversation.
StartRendered(c) == c.phase = "mounted" /\ c.status = "idle"

\* startConversation up to `await getUserMedia`.
StartConversation(i) ==
    /\ StartRendered(cv[i])
    /\ cv' = [cv EXCEPT ![i] =
                [SetStatus(@, "connecting") EXCEPT !.transcript = <<>>,
                                                   !.startPc = "awaitMic"]]
    /\ last' = Event("StartConversation", i)
    /\ UNCHANGED app

\* A catch block that only marks the start as over.
StartFailed_Silent(c) == [c EXCEPT !.startPc = "done"]

\* The catch block of startConversation.
StartFailed(c) == [SetStatus(c, "error") EXCEPT !.startPc = "done"]

StartOutcomes == {"ok", "inputContextFails", "outputContextFails"}

\* getUserMedia resolved: the rest of the try block.  `new AudioContext`
\* may throw, which leads to the catch block.
Acquire(c, outcome) ==
    LET c1 == [c EXCEPT !.audioStreamRef = TRUE, !.micTracks = "live"]
        c2 == [c1 EXCEPT !.inputAudioContextRef = "running"]
        c3 == [c2 EXCEPT !.outputAudioContextRef = "running",
                         !.currentTime = 0,
                         !.analyserNodeRef = TRUE,
                         !.nextStartTimeRef = 0]
    IN  CASE outcome = "inputContextFails" -> StartFailed(c1)
          [] outcome = "outputContextFails" -> StartFailed(c2)
          [] OTHER -> [c3 EXCEPT !.sessionPromiseRef = TRUE,
                                 !.session = "connecting",
                                 !.sessionPromise = "pending",
                                 !.startPc = "done"]

MicGranted(i) ==
    /\ cv[i].startPc = "awaitMic"
    /\ \E outcome \in StartOutcomes :
          cv' = [cv EXCEPT ![i] = Acquire(@, outcome)]
    /\ last' = Event("MicGranted", i)
    /\ UNCHANGED app

\* getUserMedia rejected.
MicDenied(i) ==
    /\ cv[i].startPc = "awaitMic"
    /\ cv' = [cv EXCEPT ![i] = [StartFailed(@) EXCEPT !.micDenied = TRUE]]
    /\ last' = Event("MicDenied", i)
    /\ UNCHANGED app

\* ------------------------------------------------------------------ session
\* The onopen callback, then the resolution of the connect promise and the
\* callbacks waiting on it.  createMediaStreamSource on a closed context
\* throws in some browsers (nodeThrows); connect() then never resolves.
onopen(c, nodeThrows) ==
    LET c1 == SetStatus([c EXCEPT !.session = "open"], "live")
        c2 == [c1 EXCEPT !.mediaStreamSourceRef = TRUE,
                         !.scriptProcessorRef = TRUE,
                         !.capturing = (c1.inputAudioContextRef = "running"
                                        /\ c1.micTracks = "live"),
                         !.sessionPromise = "resolved"]
    IN  IF nodeThrows THEN c1
        ELSE IF c2.closeDeferred
             THEN CloseSession([c2 EXCEPT !.closeDeferred = FALSE])
             ELSE c2

OnOpen(i) ==
    /\ cv[i].session = "connecting"
    /\ \E nodeThrows \in
            (IF cv[i].inputAudioContextRef = "closed" THEN BOOLEAN ELSE {FALSE}) :
          cv' = [cv EXCEPT ![i] = onopen(@, nodeThrows)]
    /\ last' = Event("OnOpen", i)
    /\ UNCHANGED app

\* The onerror callback; a failed websocket is closed by the browser.
onerror(c) == stopAudioProcessing(SetStatus(c, "error"))

OnError(i) ==
    /\ cv[i].session \in {"connecting", "open"}
    /\ cv' = [cv EXCEPT ![i] =
                onerror([@ EXCEPT !.session = "closed", !.oncloseDue = TRUE])]
    /\ last' = Event("OnError", i)
    /\ UNCHANGED app

\* The onclose callback: the close event of a websocket closed by either side.
onclose(c) == stopAudioProcessing(c)

OnClose(i) ==
    /\ cv[i].oncloseDue \/ cv[i].session = "open"
    /\ cv' = [cv EXCEPT ![i] =
                onclose([@ EXCEPT !.session = "closed", !.oncloseDue = FALSE])]
    /\ last' = Event("OnClose", i)
    /\ UNCHANGED app

\* ------------------------------------------------------------------ end
\* The cleanup effect, run when the component is removed.
Cleanup(c) ==
    LET c1 == IF c.sessionPromiseRef THEN ThenClose(c) ELSE c
    IN  stopAudioProcessing(stopAnimation(c1))

\* App.handleEndConversation
handleEndConversation(a) ==
    [a EXCEPT !.appState = "upload", !.photoUrl = FALSE,
              !.personalityPrompt = FALSE, !.error = FALSE,
              !.mouthCoordinates = 0]

\* onEnd(): App.handleEndConversation leaves the conversation screen, which
\* unmounts the component (its canvas goes) and runs the cleanup effect.
onEnd(c) == Cleanup([c EXCEPT !.phase = "unmounted", !.portrait = "none"])

\* endConversation that leaves sessionPromiseRef set.
endConversation_KeepsPromise(c) ==
    LET c1 == SetStatus(c, "idle")
        c2 == IF c1.sessionPromiseRef THEN ThenClose(c1) ELSE c1
        c3 == stopAudioProcessing(c2)
        c4 == [c3 EXCEPT !.animationFrameIdRef = FALSE]
        c5 == [StopSources(c4) EXCEPT !.audioSourcesRef = {}]
    IN  onEnd(c5)

endConversation(c) ==
    LET c1 == SetStatus(c, "idle")
        c2 == IF c1.sessionPromiseRef
              THEN [ThenClose(c1) EXCEPT !.sessionPromiseRef = FALSE]
              ELSE c1
        c3 == stopAudioProcessing(c2)
        c4 == [c3 EXCEPT !.animationFrameIdRef = FALSE]
        c5 == [StopSources(c4) EXCEPT !.audioSourcesRef = {}]
    IN  onEnd(c5)

\* The End Conversation button is rendered while live or connecting.
EndConversation(i) ==
    /\ cv[i].phase = "mounted"
    /\ cv[i].status \in {"live", "connecting"}
    /\ cv' = [cv EXCEPT ![i] = [endConversation(@) EXCEPT !.stopRequested = TRUE]]
    /\ app' = handleEndConversation(app)
    /\ last' = Event("EndConversation", i)

\* endConversation called a second time, right after the first call.
EndConversationAgain(i) ==
    /\ last.op = "EndConversation" /\ last.inst = i
    /\ cv' = [cv EXCEPT ![i] = endConversation(@)]
    /\ app' = handleEndConversation(app)
    /\ last' = Event("EndConversationAgain", i)

\* ------------------------------------------------------------------ journey
\* App.handleStartJourney, split at its awaits, and the render of App that
\* follows setAppState('conversation').
MouthResponses == {"region", "zeroField", "unparsable"}

\* The text of the gender response: whether JSON.parse accepts it, and the
\* value of its gender key.
GenderResponses ==
    { [parses |-> TRUE, gender |-> g] : g \in {"female", "male", "unknown"} }
    \cup { [parses |-> FALSE, gender |-> "female"] }

\* Begin the Journey is enabled while LandingPage is shown and not loading.
HandleStartJourney(media) ==
    /\ app.appState = "upload"
    /\ app.journey < MaxJourneys
    /\ \E i \in Inst : cv[i].phase = "unborn"
    /\ app' = [app EXCEPT !.appState = "generating", !.error = FALSE,
                          !.pc = "photo", !.mediaFile = media,
                          !.journey = @ + 1]
    /\ last' = Event("HandleStartJourney", 0)
    /\ UNCHANGED cv

\* blobToBase64 resolved.
PhotoRead ==
    /\ app.pc = "photo"
    /\ app' = [app EXCEPT !.photoUrl = TRUE, !.pc = "persona"]
    /\ last' = Event("PhotoRead", 0)
    /\ UNCHANGED cv

\* The persona call resolved; text: personaResponse.text is a non-empty text.
PersonaDone ==
    /\ app.pc = "persona"
    /\ \E text \in BOOLEAN :
          app' = [app EXCEPT !.personalityPrompt = text, !.pc = "mouth"]
    /\ last' = Event("PersonaDone", 0)
    /\ UNCHANGED cv

\* The inner try of the mouth detection: JSON.parse and the test of the
\* four fields; a parse error leads to setMouthCoordinates(null).
DetectedMouth(a, resp) ==
    CASE resp = "region" -> [a EXCEPT !.mouthCoordinates = a.journey]
      [] resp = "zeroField" -> a
      [] OTHER -> [a EXCEPT !.mouthCoordinates = 0]

\* The inner try of the voice selection.
SelectVoice(a, resp) ==
    IF resp.parses /\ resp.gender = "female"
    THEN [a EXCEPT !.voiceName = "Kore"]
    ELSE [a EXCEPT !.voiceName = "Zephyr"]

\* `else` of the voice selection that sets no voice.
DefaultVoice_Keeps(a) == a

\* `else { setVoiceName('Zephyr') }`
DefaultVoice(a) == [a EXCEPT !.voiceName = "Zephyr"]

\* setAppState('conversation') and the render: ConversationView is mounted
\* when photoUrl and personalityPrompt are set, else App falls back to upload.
EnterConversation(a, gender) ==
    LET k == CHOOSE i \in Inst :
                /\ cv[i].phase = "unborn"
                /\ \A j \in Inst : cv[j].phase = "unborn" => i <= j
    IN  IF a.photoUrl /\ a.personalityPrompt
        THEN /\ app' = [a EXCEPT !.appState = "conversation", !.pc = "idle"]
             /\ cv' = [cv EXCEPT ![k] =
                         [NewView(a.mouthCoordinates # 0) EXCEPT
                             !.voiceName = a.voiceName,
                             !.mediaFile = a.mediaFile,
                             !.gender = gender,
                             !.journey = a.journey,
                             !.mouthJourney = a.mouthCoordinates]]
             /\ last' = Event("EnterConversation", k)
        ELSE /\ app' = [a EXCEPT !.appState = "upload", !.pc = "idle"]
             /\ last' = Event("EnterUpload", 0)
             /\ UNCHANGED cv

\* The mouth detection call resolved.
MouthDone(Responses) ==
    /\ app.pc = "mouth"
    /\ \E resp \in Responses :
          LET a == DetectedMouth(app, resp)
          IN  IF a.mediaFile
              THEN EnterConversation(DefaultVoice(a), "none")
              ELSE /\ app' = [a EXCEPT !.pc = "gender"]
                   /\ last' = [Event("MouthDone", 0) EXCEPT !.resp = resp]
                   /\ UNCHANGED cv

\* The gender call resolved.
GenderDone(Responses) ==
    /\ app.pc = "gender"
    /\ \E resp \in Responses :
          EnterConversation(SelectVoice(app, resp),
                            IF resp.parses THEN resp.gender ELSE "none")

\* The pending call of handleStartJourney rejected: the outer catch.
AwaitRejected ==
    /\ app.pc \in {"photo", "persona", "mouth", "gender"}
    /\ app' = [app EXCEPT !.error = TRUE, !.appState = "upload", !.pc = "idle"]
    /\ last' = Event(IF app.pc = "mouth" THEN "MouthRejected" ELSE "Rejected", 0)
    /\ UNCHANGED cv

Journey(Medias, Mouths, Genders) ==
    \/ \E media \in Medias : HandleStartJourney(media)
    \/ PhotoRead
    \/ PersonaDone
    \/ MouthDone(Mouths)
    \/ GenderDone(Genders)
    \/ AwaitRejected

\* ------------------------------------------------------------------ messages
\* newEntries with the model's entry pushed first.
NewEntries_ModelFirst(fullInput, fullOutput) ==
    (IF fullOutput # <<>> THEN <<[speaker |-> "model", text |-> fullOutput]>> ELSE <<>>)
    \o (IF fullInput # <<>> THEN <<[speaker |-> "user", text |-> fullInput]>> ELSE <<>>)

\* setTranscript(prev => [...prev, ...newEntries])
NewEntries(fullInput, fullOutput) ==
    (IF fullInput # <<>> THEN <<[speaker |-> "user", text |-> fullInput]>> ELSE <<>>)
    \o (IF fullOutput # <<>> THEN <<[speaker |-> "model", text |-> fullOutput]>> ELSE <<>>)

SetTranscript(c, entries) ==
    IF c.phase = "mounted" THEN [c EXCEPT !.transcript = @ \o entries] ELSE c

\* Interrupted without the reset of nextStartTimeRef.
Interrupted_KeepsQueue(c) ==
    stopAnimation(SetActiveAudioSources(
        [StopSources(c) EXCEPT !.audioSourcesRef = {}, !.prevSource = NoSource], 0))

\* onmessage, `if (message.serverContent?.interrupted)`
Interrupted(c) ==
    LET c1 == [StopSources(c) EXCEPT !.audioSourcesRef = {}]
        c2 == [SetActiveAudioSources(c1, 0) EXCEPT !.nextStartTimeRef = 0,
                                                   !.prevSource = NoSource]
    IN  stopAnimation(c2)

\* onmessage, the turnComplete branch
TurnComplete(c) ==
    LET fullInput == Trim(c.currentInputTranscriptionRef)
        fullOutput == Trim(c.currentOutputTranscriptionRef)
    IN  [SetTranscript(c, NewEntries(fullInput, fullOutput))
            EXCEPT !.currentInputTranscriptionRef = <<>>,
                   !.currentOutputTranscriptionRef = <<>>]

\* onmessage after the audio block: interruption, fragments, turn end.
Dispatch(c, m) ==
    LET c1 == IF m.interrupted THEN Interrupted(c) ELSE c
        c2 == [c1 EXCEPT !.currentInputTranscriptionRef = @ \o m.inputTranscription,
                         !.currentOutputTranscriptionRef = @ \o m.outputTranscription]
    IN  IF m.turnComplete THEN TurnComplete(c2) ELSE c2

HasAudio(c, m) ==
    m.audio # "none" /\ c.outputAudioContextRef # "null" /\ c.analyserNodeRef

\* BeginChunk that starts the animation loop without asking for a mouth region.
BeginChunk_NoGuard(c, m, open) ==
    LET c1 == IF ~c.animationFrameIdRef THEN animateMouth(c, open) ELSE c
    IN  [c1 EXCEPT !.nextStartTimeRef = Max(@, c1.currentTime),
                   !.decoding = @ \cup {[id |-> c1.msgCount, msg |-> m,
                                          arrival |-> c1.currentTime]}]

\* onmessage up to `await decodeAudioData(...)`.
BeginChunk(c, m, open) ==
    LET c1 == IF ~c.animationFrameIdRef /\ c.mouthCoordinates
              THEN animateMouth(c, open) ELSE c
    IN  [c1 EXCEPT !.nextStartTimeRef = Max(@, c1.currentTime),
                   !.decoding = @ \cup {[id |-> c1.msgCount, msg |-> m,
                                          arrival |-> c1.currentTime]}]

\* ScheduleChunk advancing nextStartTimeRef from the current time.
ScheduleChunk_FromNow(c, id, duration) ==
    LET c1 == SetActiveAudioSources(c, c.activeAudioSources + 1)
        start == c1.nextStartTimeRef
        node == [id |-> id, start |-> start,
                 end |-> Max(start, c1.currentTime) + duration, stopped |-> FALSE]
    IN  [c1 EXCEPT !.nodes = @ \cup {node},
                   !.nextStartTimeRef = c1.currentTime + duration,
                   !.audioSourcesRef = @ \cup {id},
                   !.prevSource = [valid |-> TRUE, start |-> start,
                                   duration |-> duration]]

\* onmessage after the await: the decoded buffer is scheduled.
ScheduleChunk(c, id, duration) ==
    LET c1 == SetActiveAudioSources(c, c.activeAudioSources + 1)
        start == c1.nextStartTimeRef
        node == [id |-> id, start |-> start,
                 end |-> Max(start, c1.currentTime) + duration, stopped |-> FALSE]
    IN  [c1 EXCEPT !.nodes = @ \cup {node},
                   !.nextStartTimeRef = start + duration,
                   !.audioSourcesRef = @ \cup {id},
                   !.prevSource = [valid |-> TRUE, start |-> start,
                                   duration |-> duration]]

\* The `ended` listener of a source.
onended(c, id) ==
    LET c1 == [c EXCEPT !.audioSourcesRef = @ \ {id}]
        newCount == Max(0, c1.activeAudioSources - 1)
    IN  IF c1.phase # "mounted" THEN c1
        ELSE SetActiveAudioSources(
                IF newCount = 0 THEN stopAnimation(c1) ELSE c1, newCount)

\* History: the fragments in the order their messages arrived, and the
\* entries each turn is due once its turnComplete message has arrived.
Arrived(c, m) ==
    LET fullInput == c.arrivedInput \o m.inputTranscription
        fullOutput == c.arrivedOutput \o m.outputTranscription
    IN  IF m.turnComplete
        THEN [c EXCEPT !.arrivedInput = <<>>, !.arrivedOutput = <<>>,
                       !.expected = @ \o NewEntries(Trim(fullInput), Trim(fullOutput))]
        ELSE [c EXCEPT !.arrivedInput = fullInput, !.arrivedOutput = fullOutput]

\* History: the handler of message id has run to its end.
Handled(c, id, m) ==
    IF m.interrupted THEN [c EXCEPT !.interruptedUpTo = Max(@, id)] ELSE c

\* A server message arrives on the open websocket (at most n messages).
OnMessageUpTo(i, Msgs, n) ==
    /\ cv[i].session = "open"
    /\ cv[i].msgCount < n
    /\ \E m \in Msgs :
         LET c == Arrived([cv[i] EXCEPT !.msgCount = @ + 1], m)
             starts == HasAudio(c, m) /\ ~c.animationFrameIdRef /\ c.mouthCoordinates
         IN  \E open \in (IF starts THEN BOOLEAN ELSE {FALSE}) :
               /\ cv' = [cv EXCEPT ![i] =
                            IF HasAudio(c, m) THEN BeginChunk(c, m, open)
                            ELSE Handled(Dispatch(c, m), c.msgCount, m)]
               /\ last' = [Event(IF HasAudio(c, m) THEN "OnMessageAwait"
                                 ELSE "OnMessageDone", i) EXCEPT !.msg = m]
    /\ UNCHANGED app

OnMessage(i, Msgs) == OnMessageUpTo(i, Msgs, MaxMsgs)

\* decodeAudioData resolved: the handler resumes and runs to its end.
DecodeDone(i) ==
    \E d \in cv[i].decoding :
        /\ d.msg.audio = "ok"
        /\ UNCHANGED app
        /\ LET c == [cv[i] EXCEPT !.decoding = @ \ {d}]
           IN  /\ cv' = [cv EXCEPT ![i] =
                            Handled(Dispatch(ScheduleChunk(c, d.id, d.msg.duration),
                                             d.msg), d.id, d.msg)]
               /\ last' = [Event("OnMessageDone", i) EXCEPT
                              !.msg = d.msg,
                              !.start = c.nextStartTimeRef,
                              !.now = c.currentTime,
                              !.arrival = d.arrival,
                              !.prev = c.prevSource]

\* decodeAudioData rejected: the handler ends with the exception.
DecodeFail(i) ==
    \E d \in cv[i].decoding :
        /\ d.msg.audio = "bad"
        /\ cv' = [cv EXCEPT ![i].decoding = @ \ {d}]
        /\ last' = [Event("OnMessageThrow", i) EXCEPT !.msg = d.msg]
        /\ UNCHANGED app

\* A source finished playing or was stopped: its `ended` event.
OnEnded(i) ==
    \E n \in cv[i].nodes :
        /\ n.stopped \/ cv[i].currentTime >= n.end
        /\ cv' = [cv EXCEPT ![i] = onended([@ EXCEPT !.nodes = @ \ {n}], n.id)]
        /\ last' = Event("OnEnded", i)
        /\ UNCHANGED app

\* The output context's clock advances while the context runs.
Tick(i) ==
    /\ cv[i].outputAudioContextRef = "running"
    /\ cv[i].currentTime < MaxClock
    /\ cv' = [cv EXCEPT ![i].currentTime = @ + 1]
    /\ last' = Event("Tick", i)
    /\ UNCHANGED app

\* The requestAnimationFrame callback.
AnimFrame(i) ==
    /\ cv[i].animationFrameIdRef
    /\ \E open \in BOOLEAN : cv' = [cv EXCEPT ![i] = animateMouth(@, open)]
    /\ last' = Event("AnimFrame", i)
    /\ UNCHANGED app

\* ------------------------------------------------------------------ loudness
\* The arithmetic of animateMouth.  Loudness is counted in hundredths; a
\* smoothed loudness in 1/SmoothUnit of a hundredth, which keeps
\* MaxFrames steps of the low-pass filter exact; a displacement in
\* 1/OnePixel of a pixel.
volumeThreshold == 2
smoothingFactorInverse == 4
maxOpennessTenths == 7
opennessGain == 8

SmoothUnit == smoothingFactorInverse ^ MaxFrames
OnePixel == 100 * SmoothUnit * 10

\* RMS loudness of a frame: silence, below the threshold, just above it,
\* full scale.
RmsLevels == {0, 1, 3, 100}
\* Heights in pixels of the mouth region on the canvas.
DHeights == {10, 40}

\* const effectiveVolume = (rms > volumeThreshold) ? rms : 0
effectiveVolume(rms) == IF rms > volumeThreshold THEN rms ELSE 0

\* smoothed * (1 - smoothingFactor) + effectiveVolume * smoothingFactor
Smooth(smoothed, rms) ==
    ((smoothingFactorInverse - 1) * smoothed + effectiveVolume(rms) * SmoothUnit)
        \div smoothingFactorInverse

\* const maxOpenness = dHeight * 0.7
maxOpenness(dHeight) == dHeight * maxOpennessTenths * 100 * SmoothUnit

\* const mouthOpenness = smoothedVolumeRef.current * maxOpenness * 8
MouthOpenness(smoothed, dHeight) ==
    smoothed * (dHeight * maxOpennessTenths) * opennessGain

\* One frame of animateMouth with the loudness the analyser measures.
animateMouthRms(c, rms) ==
    IF ~(c.analyserNodeRef /\ CanvasReady(c) /\ c.mouthCoordinates)
    THEN animateMouth(c, FALSE)
    ELSE LET smoothed == Smooth(c.smoothedVolumeRef, rms)
             opening == MouthOpenness(smoothed, c.dHeight)
         IN  [animateMouth(c, opening > OnePixel) EXCEPT
                 !.smoothedVolumeRef = smoothed,
                 !.mouthOpenness = opening]

\* The requestAnimationFrame callback, with the measured loudness.
AnimFrameRms(i) ==
    /\ cv[i].animationFrameIdRef
    /\ cv[i].frames < MaxFrames
    /\ \E rms \in RmsLevels :
          /\ cv' = [cv EXCEPT ![i] =
                      [animateMouthRms(@, rms) EXCEPT !.frames = @ + 1]]
          /\ last' = [Event("AnimFrameRms", i) EXCEPT !.rms = rms]
    /\ UNCHANGED app

\* ------------------------------------------------------------------ capture
\* scriptProcessor.onaudioprocess: the block is handed to
\* sessionPromiseRef.current.then(...), which runs at once because the
\* promise was resolved right after onopen; with sessionPromiseRef null the
\* handler throws, and a closed session takes no block.
onaudioprocess(c) ==
    LET block == c.captured + 1
        c1 == [c EXCEPT !.captured = block]
    IN  IF c1.sessionPromiseRef /\ c1.sessionPromise = "resolved"
           /\ c1.session = "open"
        THEN [c1 EXCEPT !.sent = Append(@, block)]
        ELSE c1

\* The script processor, connected to a running context that is fed by a
\* live microphone, has filled a block.
OnAudioProcess(i) ==
    /\ cv[i].capturing
    /\ cv[i].captured < MaxBlocks
    /\ cv' = [cv EXCEPT ![i] = onaudioprocess(@)]
    /\ last' = Event("OnAudioProcess", i)
    /\ UNCHANGED app

Lifecycle(i) ==
    \/ StartConversation(i)
    \/ MicGranted(i)
    \/ MicDenied(i)
    \/ OnOpen(i)
    \/ OnError(i)
    \/ OnClose(i)
    \/ EndConversation(i)

Decode(i) ==
    \/ DecodeDone(i)
    \/ DecodeFail(i)

Playback(i) ==
    \/ OnEnded(i)
    \/ Tick(i)
    \/ AnimFrame(i)

Next ==
    \E i \in Inst :
        \/ Lifecycle(i)
        \/ Decode(i)
        \/ Playback(i)
        \/ OnMessage(i, AudioMsgs)

Spec == Init /\ [][Next]_vars

\* The conversation with endConversation called twice in a row.
NextStop ==
    \/ Next
    \/ \E i \in Inst : EndConversationAgain(i)

SpecStop == Init /\ [][NextStop]_vars

\* App from its first render.
InitApp ==
    /\ cv = [i \in Inst |-> Unborn]
    /\ app = NewApp
    /\ last = NoEvent

\* The journeys with every kind of response, and the two buttons of the
\* conversations they lead to; what a started conversation does after its
\* start touches neither the App state nor the props of a conversation.
NextApp ==
    \/ Journey(BOOLEAN, MouthResponses, GenderResponses)
    \/ \E i \in Inst : StartConversation(i) \/ EndConversation(i)

SpecApp == InitApp /\ [][NextApp]_vars

\* The journeys of photographs without reference media whose responses
\* parse, and the whole lifecycle of the conversations they lead to; the
\* lifecycle of a conversation reads none of its props.
NextSessions ==
    \/ Journey({FALSE}, {"region"}, {[parses |-> TRUE, gender |-> "female"]})
    \/ \E i \in Inst : Lifecycle(i)

SpecSessions == InitApp /\ [][NextSessions]_vars

\* A conversation with a mouth region whose animation frames measure the
\* loudness; its messages carry one kind of chunk.
InitMouth ==
    /\ \E h \in DHeights :
          cv = [i \in Inst |-> IF i = 1 THEN [NewView(TRUE) EXCEPT !.dHeight = h]
                                ELSE Unborn]
    /\ app = InConversation(TRUE)
    /\ last = NoEvent

ChunkMsgs == { [NoMsg EXCEPT !.audio = "ok", !.duration = 1] }

NextMouth ==
    \E i \in Inst :
        \/ Lifecycle(i)
        \/ OnMessage(i, ChunkMsgs)
        \/ DecodeDone(i)
        \/ OnEnded(i)
        \/ AnimFrameRms(i)

SpecMouth == InitMouth /\ [][NextMouth]_vars

\* The lifecycle of a conversation and the capture of microphone blocks.
NextCapture ==
    \E i \in Inst :
        \/ Lifecycle(i)
        \/ OnAudioProcess(i)

SpecCapture == Init /\ [][NextCapture]_vars

\* A conversation whose messages carry a chunk or an interruption, one
\* message more than MaxMsgs: a chunk before and a chunk after an
\* interruption, with the `ended` events of both.
InterruptMsgs ==
    { [NoMsg EXCEPT !.audio = "ok", !.duration = 1],
      [NoMsg EXCEPT !.interrupted = TRUE] }

NextInterrupt ==
    \E i \in Inst :
        \/ Lifecycle(i)
        \/ OnMessageUpTo(i, InterruptMsgs, MaxMsgs + 1)
        \/ DecodeDone(i)
        \/ OnEnded(i)
        \/ Tick(i)

SpecInterrupt == Init /\ [][NextInterrupt]_vars

\* The same component fed with the transcription stream; the clock, the
\* `ended` events and the animation frames do not touch the transcript.
NextText ==
    \E i \in Inst :
        \/ Lifecycle(i)
        \/ DecodeDone(i)
        \/ OnMessage(i, TextMsgs)

SpecText == Init /\ [][NextText]_vars

\* ================================================================== claims
Scheduled == last.op = "OnMessageDone" /\ last.msg.audio = "ok"

\* C1: whenever a source is scheduled, the start time passed to source.start
\* is at least the output clock's current time and, if a source was scheduled
\* before it with no interruption in between, at least that source's
\* start + duration (so start times never decrease).
C1_StartTimesOrdered ==
    Scheduled =>
        /\ last.start >= last.now
        /\ last.prev.valid => last.start >= last.prev.start + last.prev.duration

\* C2: right after the onmessage handler has run to its end for a message
\* whose interrupted flag is set, the active-source set is empty, nextStartTime
\* is 0 and the counter of the rendered component is 0, whatever was active
\* before and also when the same message carried a chunk.
C2_InterruptedClears ==
    (last.op = "OnMessageDone" /\ last.msg.interrupted) =>
        LET c == cv[last.inst]
        IN  /\ c.audioSourcesRef = {}
            /\ c.nextStartTimeRef = 0
            /\ c.phase = "mounted" => c.activeAudioSources = 0

\* An active source and the source of the interrupting message itself were
\* both stopped by that message.
C2_Witness ==
    /\ last.op = "OnMessageDone" /\ last.msg.interrupted /\ last.msg.audio = "ok"
    /\ cv[last.inst].phase = "mounted"
    /\ Cardinality({n \in cv[last.inst].nodes : n.stopped}) = 2

\* C3: a chunk scheduled while nextStartTime is ahead of the output clock
\* starts exactly at the previous source's start + duration; the first chunk
\* of a conversation, arriving at clock 0 with duration D, leaves
\* nextStartTime = D.
C3_Gapless ==
    Scheduled =>
        /\ (last.prev.valid /\ last.start > last.now) =>
               last.start = last.prev.start + last.prev.duration
        /\ (cv[last.inst].msgCount = 1 /\ last.arrival = 0 /\ ~last.msg.interrupted) =>
               cv[last.inst].nextStartTimeRef = last.msg.duration

\* The second chunk is scheduled at clock 1, before the first one (0..2) has
\* finished, and starts at 2.
C3_Witness ==
    /\ Scheduled
    /\ last.prev = [valid |-> TRUE, start |-> 0, duration |-> 2]
    /\ last.now = 1
    /\ last.start = 2

\* C4: when the handler of a turnComplete message of a rendered conversation
\* runs to its end, each running buffer (with the message's own fragment) that
\* is non-empty after trimming is appended as exactly one entry with the
\* trimmed text, the user entry before the model entry, nothing else is
\* appended, and both buffers are empty afterwards.
C4_TurnCompleteAppends ==
    [][ \A i \in Inst :
          (/\ last'.op = "OnMessageDone" /\ last'.inst = i
           /\ last'.msg.turnComplete
           /\ cv'[i].phase = "mounted") =>
            LET user == Trim(cv[i].currentInputTranscriptionRef
                                \o last'.msg.inputTranscription)
                model == Trim(cv[i].currentOutputTranscriptionRef
                                \o last'.msg.outputTranscription)
                appended ==
                    CASE user # <<>> /\ model # <<>> ->
                            << [speaker |-> "user", text |-> user],
                               [speaker |-> "model", text |-> model] >>
                      [] user # <<>> /\ model = <<>> ->
                            << [speaker |-> "user", text |-> user] >>
                      [] user = <<>> /\ model # <<>> ->
                            << [speaker |-> "model", text |-> model] >>
                      [] OTHER -> << >>
            IN  /\ cv'[i].transcript = cv[i].transcript \o appended
                /\ cv'[i].currentInputTranscriptionRef = <<>>
                /\ cv'[i].currentOutputTranscriptionRef = <<>> ]_vars

\* A turn ended with both buffers pending: two
\* entries were appended, user then model.
C4_Witness ==
    /\ last.op = "OnMessageDone" /\ last.msg.turnComplete
    /\ cv[last.inst].phase = "mounted"
    /\ cv[last.inst].transcript =
          << [speaker |-> "user", text |-> <<"a">>],
             [speaker |-> "model", text |-> <<"a">>] >>
    /\ cv[last.inst].arrivedInput = <<>>
    /\ cv[last.inst].expected = cv[last.inst].transcript

IsPrefix(s, t) == Len(s) <= Len(t) /\ SubSeq(t, 1, Len(s)) = s

\* C5: the entries committed to the transcript are, turn by turn, the trimmed
\* concatenation in arrival order of the fragments of the messages that
\* arrived up to and including the turn's turnComplete message.
C5_ArrivalOrderCommitted ==
    \A i \in Inst :
        cv[i].phase = "mounted" => IsPrefix(cv[i].transcript, cv[i].expected)

\* C6: once the microphone request of a start was denied, the status of the
\* rendered component has gone idle -> connecting -> error and was never
\* live, no connection to the remote session was attempted and no microphone
\* stream is held.
C6_MicDenied ==
    \A i \in Inst :
        cv[i].micDenied =>
            /\ cv[i].phase = "mounted" =>
                   cv[i].trail = <<"idle", "connecting", "error">>
            /\ \A k \in 1..Len(cv[i].trail) : cv[i].trail[k] # "live"
            /\ cv[i].session = "none" /\ ~cv[i].sessionPromiseRef
            /\ cv[i].micTracks = "none" /\ ~cv[i].audioStreamRef

C6_Witness ==
    /\ last.op = "MicDenied"
    /\ cv[last.inst].phase = "mounted"
    /\ cv[last.inst].status = "error"

\* No microphone track is live and the capture nodes and both audio contexts
\* are released.
AudioReleased(c) ==
    /\ c.micTracks # "live" /\ ~c.audioStreamRef
    /\ ~c.scriptProcessorRef /\ ~c.mediaStreamSourceRef /\ ~c.capturing
    /\ c.inputAudioContextRef # "running"
    /\ c.outputAudioContextRef # "running"

\* Every source is stopped, the active set is empty, no animation frame is
\* requested and no displaced frame is shown.
PlaybackStopped(c) ==
    /\ \A n \in c.nodes : n.stopped
    /\ c.audioSourcesRef = {}
    /\ ~c.animationFrameIdRef
    /\ c.portrait # "jaw"

\* C7: right after endConversation was called in status live, the remote
\* session is closed, every playback source is stopped and the active set
\* empty, the animation loop is cancelled with no displaced frame left on
\* screen, and the microphone, the capture nodes and both contexts are
\* released.
C7_EndReleasesAll ==
    (last.op = "EndConversation" /\ last.status = "live") =>
        LET c == cv[last.inst]
        IN  /\ c.session = "closed"
            /\ PlaybackStopped(c)
            /\ AudioReleased(c)
            /\ c.micTracks = "stopped"
            /\ c.inputAudioContextRef = "closed"
            /\ c.outputAudioContextRef = "closed"

\* The conversation was ended while the session was open, a source was in the
\* active set and the animation loop was running.
C7_Witness ==
    /\ last.op = "EndConversation" /\ last.status = "live"
    /\ last.session = "open"
    /\ cv[last.inst].mouthCoordinates
    /\ \E n \in cv[last.inst].nodes : n.stopped /\ n.end > cv[last.inst].currentTime

\* C8: right after onerror, the status of the rendered component is error,
\* the remote session is closed and the teardown is the full one: sources
\* stopped, active set empty, animation cancelled, microphone and
\* audio-processing resources released.
C8_ErrorReleasesAll ==
    last.op = "OnError" =>
        LET c == cv[last.inst]
        IN  /\ c.phase = "mounted" => c.status = "error"
            /\ c.session = "closed"
            /\ PlaybackStopped(c)
            /\ AudioReleased(c)

\* The start failed after the microphone was granted: an audio context could
\* not be created, or the session that was being opened failed.
StartFailedPartway(i) ==
    \/ /\ cv[i].startPc = "done" /\ cv[i].micTracks # "none"
       /\ cv[i].session = "none"
    \/ last.op = "OnError" /\ last.inst = i /\ last.session = "connecting"

\* C9: when a start fails after the microphone was granted, the microphone
\* stream and every other resource acquired so far are released.
C9_PartialStartReleased ==
    \A i \in Inst : StartFailedPartway(i) => AudioReleased(cv[i])

\* Nothing the instance started is still pending: no permission request, no
\* connection being opened, no close waiting for the connect promise.
Quiescent(c) ==
    c.startPc # "awaitMic" /\ c.session # "connecting" /\ ~c.closeDeferred

\* C10: after a stop, once nothing is pending any more, no microphone track
\* is live and no remote session is open.  Stated for starts whose
\* acquisition did not fail (C9 is about those).
C10_StopReleases ==
    \A i \in Inst :
        (cv[i].stopRequested /\ Quiescent(cv[i]) /\ ~StartFailedPartway(i)) =>
            cv[i].micTracks # "live" /\ cv[i].session # "open"

\* C11: once the conversation was stopped and its session closed, the
\* resolution of a decode that was in flight creates and starts no source,
\* adds none to the active set, leaves the counter alone and does not start
\* the animation loop.
C11_StoppedDecodeDiscarded ==
    [][ \A i \in Inst :
          (/\ cv[i].stopRequested /\ cv[i].session = "closed"
           /\ cv[i].decoding # {}
           /\ cv'[i].decoding # cv[i].decoding) =>
            /\ cv'[i].nodes \subseteq cv[i].nodes
            /\ cv'[i].audioSourcesRef \subseteq cv[i].audioSourcesRef
            /\ cv'[i].activeAudioSources <= cv[i].activeAudioSources
            /\ cv[i].animationFrameIdRef \/ ~cv'[i].animationFrameIdRef ]_vars

\* C12: a second call of endConversation right after the first one changes
\* nothing: status, session reference, resource references, active set and
\* animation handle are as the first call left them, and nothing is closed,
\* stopped or released again (no further session.close() is requested).
C12_StopIdempotent ==
    [][ \A i \in Inst :
          (last'.op = "EndConversationAgain" /\ last'.inst = i) =>
              cv'[i] = cv[i] /\ app' = app ]_vars

\* The first call closed the open session, stopped the microphone and a
\* playing source; the second call followed.
C12_Witness ==
    /\ last.op = "EndConversationAgain"
    /\ cv[last.inst].closeCalls = 1 /\ cv[last.inst].session = "closed"
    /\ cv[last.inst].micTracks = "stopped"
    /\ \E n \in cv[last.inst].nodes : n.stopped

\* C13: at any time at most one remote session is open, over all the
\* conversations started and stopped, a stop while connecting followed by a
\* new start included.
C13_OneSessionOpen ==
    Cardinality({ i \in Inst : cv[i].session = "open" }) <= 1

\* C14: a conversation without a mouth region never has the animation loop
\* scheduled nor a displaced frame drawn, whatever messages arrive; and a
\* decoded chunk is scheduled by the same rule with and without a region:
\* its source starts at nextStartTime, is in the active set, and
\* nextStartTime has advanced by its duration.
C14_NoMouthNoAnimation ==
    /\ \A i \in Inst :
          ~cv[i].mouthCoordinates =>
              ~cv[i].animationFrameIdRef /\ cv[i].portrait # "jaw"
    /\ (Scheduled /\ ~last.msg.interrupted) =>
          LET c == cv[last.inst]
          IN  /\ c.nextStartTimeRef = last.start + last.msg.duration
              /\ \E n \in c.nodes :
                    /\ n.start = last.start /\ ~n.stopped
                    /\ n.id \in c.audioSourcesRef
              /\ c.phase = "mounted" => c.activeAudioSources >= 1

\* Without a mouth region, two chunks are scheduled and in the active set.
C14_Witness ==
    /\ Scheduled /\ ~last.msg.interrupted
    /\ ~cv[last.inst].mouthCoordinates
    /\ cv[last.inst].phase = "mounted"
    /\ Cardinality(cv[last.inst].audioSourcesRef) = 2
    /\ cv[last.inst].activeAudioSources = 2

\* C15: the handling of a chunk that fails to decode, from its arrival to
\* the rejection of the decode, changes neither nextStartTime nor the active
\* set nor the sources nor the counter, so that the chunks in flight and the
\* later ones are scheduled as if it had never arrived.
C15_DecodeFailureDropsChunk ==
    [][ \A i \in Inst :
          (/\ last'.op \in {"OnMessageAwait", "OnMessageThrow"}
           /\ last'.inst = i /\ last'.msg.audio = "bad"
           /\ \E d \in cv[i].decoding : d.msg.audio = "ok") =>
            /\ cv'[i].nextStartTimeRef = cv[i].nextStartTimeRef
            /\ cv'[i].audioSourcesRef = cv[i].audioSourcesRef
            /\ cv'[i].nodes = cv[i].nodes
            /\ cv'[i].activeAudioSources = cv[i].activeAudioSources ]_vars

\* C16: when the mouth detection call fails, or its response does not
\* parse, the journey goes on towards the conversation (no error shown, no
\* return to the upload screen) with the mouth region absent.
C16_MouthFailureContinues ==
    (\/ last.op = "MouthRejected"
     \/ last.op = "MouthDone" /\ last.resp = "unparsable") =>
        /\ app.appState = "generating" /\ ~app.error
        /\ app.mouthCoordinates = 0

\* C17: the voice handed to a conversation is Kore or Zephyr: Kore exactly
\* when the journey had no reference media and its gender response parsed
\* to gender 'female', Zephyr in every other case, whatever the voice of an
\* earlier journey was.
C17_VoiceSelection ==
    \A i \in Inst :
        cv[i].phase # "unborn" =>
            /\ cv[i].voiceName \in {"Kore", "Zephyr"}
            /\ cv[i].voiceName = "Kore" <=>
                   (~cv[i].mediaFile /\ cv[i].gender = "female")

\* The first journey chose Kore; the second one, with reference media,
\* starts its conversation with Zephyr.
C17_Witness ==
    /\ last.op = "EnterConversation" /\ last.inst = 2
    /\ cv[1].voiceName = "Kore"
    /\ cv[2].mediaFile /\ cv[2].voiceName = "Zephyr"

\* C18: the status of a conversation becomes live only in its onopen
\* callback and from connecting; once the conversation was stopped or is in
\* error it does not become live, also when the open announcement of the
\* stopped connection arrives late or while the next conversation connects.
C18_LiveOnlyThroughOpen ==
    [][ \A i \in Inst :
          /\ (cv'[i].status = "live" /\ cv[i].status # "live") =>
                /\ cv[i].status = "connecting"
                /\ last'.op = "OnOpen" /\ last'.inst = i
          /\ (cv[i].stopRequested \/ cv[i].status = "error") =>
                cv'[i].status # "live" ]_vars

\* The open announcement of the stopped first conversation arrives while
\* the second conversation is connecting; neither of them is live.
C18_Witness ==
    /\ last.op = "OnOpen" /\ last.inst = 1
    /\ cv[1].stopRequested /\ cv[1].status = "idle"
    /\ cv[2].status = "connecting"

\* C19: in a live conversation with a mouth region, between handler
\* executions, the animation loop is scheduled if and only if a source is in
\* the active set or a decode is in flight.
C19_LoopIffActive ==
    \A i \in Inst :
        (/\ cv[i].phase = "mounted" /\ cv[i].mouthCoordinates
         /\ cv[i].status = "live" /\ cv[i].session = "open") =>
            (cv[i].animationFrameIdRef <=>
                (cv[i].audioSourcesRef # {} \/ cv[i].decoding # {}))

\* C20: the interrupted flag of a message is processed also when the chunk
\* of the same message fails to decode: once the handler of such a message
\* is over, the active set is empty, nextStartTime is 0 and the counter of
\* the rendered component is 0.
C20_FlagsSurviveDecodeFailure ==
    (last.op = "OnMessageThrow" /\ last.msg.interrupted) =>
        LET c == cv[last.inst]
        IN  /\ c.audioSourcesRef = {}
            /\ c.nextStartTimeRef = 0
            /\ c.phase = "mounted" => c.activeAudioSources = 0

\* C21: the mouthOpenness computed in a frame is at most 0.7 times the
\* height of the mouth region on the canvas.
C21_OpennessCapped ==
    \A i \in Inst : cv[i].mouthOpenness <= maxOpenness(cv[i].dHeight)

\* C22: a frame whose measured loudness is below the threshold draws the
\* unmodified portrait, whatever the loudness of the frames before it.
C22_BelowThresholdStatic ==
    (last.op = "AnimFrameRms" /\ last.rms < volumeThreshold) =>
        cv[last.inst].portrait # "jaw"

\* C23: in the error state a start request is enabled (and leads to
\* connecting again).
C23_RestartFromError ==
    \A i \in Inst :
        (cv[i].phase = "mounted" /\ cv[i].status = "error") =>
            StartRendered(cv[i])

\* C24: a captured block is sent only to an open session, each block once
\* and in the order of capture, and none once the conversation was stopped
\* or its error was processed.
C24_BlocksSentWhileLive ==
    [][ \A i \in Inst :
          cv'[i].sent # cv[i].sent =>
            /\ cv[i].session = "open"
            /\ cv'[i].sent = Append(cv[i].sent, cv'[i].captured)
            /\ cv'[i].captured = cv[i].captured + 1
            /\ ~cv[i].stopRequested
            /\ cv[i].status # "error" ]_vars

\* C25: a chunk received before a message whose interruption was processed
\* is not playing and not in the active set afterwards, also when its
\* decode was in flight at the time of the interruption.
C25_NoPlaybackAcrossInterruption ==
    \A i \in Inst :
        /\ \A n \in cv[i].nodes : n.id < cv[i].interruptedUpTo => n.stopped
        /\ \A id \in cv[i].audioSourcesRef : id >= cv[i].interruptedUpTo

\* C26: between handler executions the counter of a rendered conversation
\* equals the number of sources in the active set.
C26_CounterMatchesSet ==
    \A i \in Inst :
        cv[i].phase = "mounted" =>
            cv[i].activeAudioSources = Cardinality(cv[i].audioSourcesRef)

\* C27: whenever the status of a rendered conversation is live, the
\* microphone stream is held and the remote session is open.
C27_LiveMeansConnected ==
    \A i \in Inst :
        (cv[i].phase = "mounted" /\ cv[i].status = "live") =>
            /\ cv[i].audioStreamRef
            /\ cv[i].micTracks = "live"
            /\ cv[i].session = "open"

\* C28: the mouth region handed to a conversation is absent or the region
\* parsed from the mouth detection response of the journey that mounted it.
C28_RegionOfSameJourney ==
    \A i \in Inst :
        cv[i].phase # "unborn" =>
            cv[i].mouthJourney \in {0, cv[i].journey}
====
